---- MODULE Spec2Model ----
(***************************************************************************)
(* Model of scipy/sparse/linalg/interface.py: the LinearOperator class and *)
(* the aslinearoperator factory.                                           *)
(*                                                                         *)
(* Python values are records.  A dense array is [cls, shape, data, dtype]  *)
(* with data the flat row-major element sequence, as numpy stores it.      *)
(* A callable is a closure record: the function's code (fn) and what it    *)
(* captured.  A call returns [exc, val] with exc = NoExc when it returns   *)
(* val, and [exc] when it raises exc.  An instance is the record of the    *)
(* attributes set on it, so hasattr is membership in its DOMAIN.           *)
(***************************************************************************)
EXTENDS Integers, Sequences, FiniteSets, TLC

VARIABLES heap, ctor, last

vars == <<heap, ctor, last>>

(* ------------------------------ bounds --------------------------------- *)

\* how many LinearOperator instances may be alive
MaxOps == 1

\* the largest number of columns K of a matrix V handed to matmat
MaxCols == 2

\* elements of the vectors handed to matvec and rmatvec: 0..MaxVal
MaxVal == 1

(* ---------------------------- exceptions ------------------------------- *)

NoExc == "None"

InvalidShape == "ValueError: invalid shape"

UnsupportedOperation == "NotImplementedError: rmatvec is not defined"

InvalidRank == "ValueError: array must have rank <= 2"

UnsupportedType == "TypeError: type not understood"

NotIterable == "TypeError: object is not iterable"

DtypeNotUnderstood == "TypeError: data type not understood"

NotAligned == "ValueError: objects are not aligned"

HstackEmpty == "ValueError: need at least one array to concatenate"

HstackMismatch == "ValueError: array dimensions must agree"

IndexError == "IndexError: index out of bounds"

(* ------------------------------ arrays --------------------------------- *)

Arr(shape, data) == [cls |-> "ndarray", shape |-> shape, data |-> data, dtype |-> "int32"]

Ok(v) == [exc |-> NoExc, val |-> v]

Raise(e) == [exc |-> e]

Rank(a) == Len(a.shape)

RECURSIVE SumTo(_, _)
SumTo(f, n) == IF n = 0 THEN 0 ELSE f[n] + SumTo(f, n - 1)

\* numpy.asarray: an ndarray is returned as it is, a matrix becomes a plain
\* ndarray over the same elements
asarray(a) == [a EXCEPT !.cls = "ndarray"]

\* a coercion that makes a length-n vector an nx1 column
atleast_2d_column(a) ==
    CASE Rank(a) = 0 -> [a EXCEPT !.shape = <<1, 1>>]
      [] Rank(a) = 1 -> [a EXCEPT !.shape = <<a.shape[1], 1>>]
      [] OTHER -> a

\* numpy.atleast_2d: a scalar becomes 1x1, a length-n vector becomes 1xn
atleast_2d(a) ==
    CASE Rank(a) = 0 -> [a EXCEPT !.shape = <<1, 1>>]
      [] Rank(a) = 1 -> [a EXCEPT !.shape = <<1, a.shape[1]>>]
      [] OTHER -> a

\* a.T (also a.transpose()) for rank <= 2: element (i, j) of the result is
\* element (j, i) of a
transpose(a) ==
    IF Rank(a) < 2 THEN a
    ELSE LET r == a.shape[1]
             c == a.shape[2]
         IN [a EXCEPT !.shape = <<c, r>>,
                      !.data = [k \in 1..(r * c) |->
                                   a.data[((k - 1) % r) * c + ((k - 1) \div r) + 1]]]

\* a.conj(): the elements modelled are real, and the conjugate of a real
\* number is that number
conj(a) == a

\* iteration over an array (for col in a): the rows of a rank-2 array, each
\* a rank-1 array; the elements of a rank-1 array, each a rank-0 array
rows(a) ==
    IF Rank(a) = 1
    THEN [i \in 1..a.shape[1] |-> [a EXCEPT !.shape = <<>>, !.data = <<a.data[i]>>]]
    ELSE LET r == a.shape[1]
             c == a.shape[2]
         IN [i \in 1..r |-> [a EXCEPT !.shape = <<c>>,
                                      !.data = [j \in 1..c |-> a.data[(i - 1) * c + j]]]]

\* col.reshape(-1, 1): the same elements as one column
reshape_col(a) == [a EXCEPT !.shape = <<Len(a.data), 1>>]

\* numpy.hstack on a list of arrays: rank-1 arrays are joined end to end,
\* rank-2 arrays side by side (they must agree in their row count); an
\* empty list raises
hstack(list) ==
    IF Len(list) = 0 THEN Raise(HstackEmpty)
    ELSE IF \A i \in 1..Len(list) : Rank(list[i]) = 1
    THEN LET off == [i \in 1..(Len(list) + 1) |->
                        SumTo([j \in 1..Len(list) |-> list[j].shape[1]], i - 1)]
             n == off[Len(list) + 1]
         IN Ok([list[1] EXCEPT
                  !.shape = <<n>>,
                  !.data = [k \in 1..n |->
                      LET i == CHOOSE i \in 1..Len(list) : off[i] < k /\ k <= off[i + 1]
                      IN list[i].data[k - off[i]]]])
    ELSE IF \E i \in 1..Len(list) :
               Rank(list[i]) # 2 \/ list[i].shape[1] # list[1].shape[1]
    THEN Raise(HstackMismatch)
    ELSE LET m == list[1].shape[1]
             off == [i \in 1..(Len(list) + 1) |->
                        SumTo([j \in 1..Len(list) |-> list[j].shape[2]], i - 1)]
             n == off[Len(list) + 1]
         IN Ok([list[1] EXCEPT
                  !.shape = <<m, n>>,
                  !.data = [k \in 1..(m * n) |->
                      LET r == (k - 1) \div n
                          c == ((k - 1) % n) + 1
                          i == CHOOSE i \in 1..Len(list) : off[i] < c /\ c <= off[i + 1]
                      IN list[i].data[r * list[i].shape[2] + (c - off[i])]]])

\* numpy.dot for operands of rank <= 2
dot(a, b) ==
    CASE Rank(a) = 0 -> Ok([b EXCEPT !.data = [k \in 1..Len(b.data) |-> a.data[1] * b.data[k]]])
      [] Rank(b) = 0 -> Ok([a EXCEPT !.data = [k \in 1..Len(a.data) |-> a.data[k] * b.data[1]]])
      [] Rank(a) = 1 /\ Rank(b) = 1 ->
            IF a.shape[1] # b.shape[1] THEN Raise(NotAligned)
            ELSE Ok([a EXCEPT !.shape = <<>>,
                              !.data = <<SumTo([j \in 1..a.shape[1] |-> a.data[j] * b.data[j]],
                                               a.shape[1])>>])
      [] Rank(a) = 2 /\ Rank(b) = 1 ->
            IF a.shape[2] # b.shape[1] THEN Raise(NotAligned)
            ELSE LET n == a.shape[2]
                 IN Ok([a EXCEPT
                          !.shape = <<a.shape[1]>>,
                          !.data = [i \in 1..a.shape[1] |->
                              SumTo([j \in 1..n |-> a.data[(i - 1) * n + j] * b.data[j]], n)]])
      [] Rank(a) = 1 /\ Rank(b) = 2 ->
            IF a.shape[1] # b.shape[1] THEN Raise(NotAligned)
            ELSE LET n == a.shape[1]
                     k == b.shape[2]
                 IN Ok([a EXCEPT
                          !.shape = <<k>>,
                          !.data = [c \in 1..k |->
                              SumTo([j \in 1..n |-> a.data[j] * b.data[(j - 1) * k + c]], n)]])
      [] OTHER ->
            IF a.shape[2] # b.shape[1] THEN Raise(NotAligned)
            ELSE LET m == a.shape[1]
                     n == a.shape[2]
                     k == b.shape[2]
                 IN Ok([a EXCEPT
                          !.shape = <<m, k>>,
                          !.data = [e \in 1..(m * k) |->
                              SumTo([j \in 1..n |->
                                        a.data[((e - 1) \div k) * n + j]
                                        * b.data[(j - 1) * k + ((e - 1) % k) + 1]], n)]])

(* ----------------------------- callables ------------------------------ *)

\* Python's None
None == [fn |-> "None"]

\* a function of the caller
User(name) == [fn |-> "user", name |-> name]

\* the caller's functions.  "mv" is the docstring's
\*     def mv(v): return array([ 2*v[0], 3*v[1]])
\* and "dbl" is  lambda v: 2*v
UserFn(name, v) ==
    IF name = "mv"
    THEN IF Rank(v) = 0 \/ v.shape[1] < 2 THEN Raise(IndexError)
         ELSE LET c == IF Rank(v) = 1 THEN 1 ELSE v.shape[2]
              IN Ok([v EXCEPT
                       !.shape = IF Rank(v) = 1 THEN <<2>> ELSE <<2, c>>,
                       !.data = [k \in 1..(2 * c) |->
                                    IF k <= c THEN 2 * v.data[k] ELSE 3 * v.data[k]]])
    ELSE Ok([v EXCEPT !.data = [k \in 1..Len(v.data) |-> 2 * v.data[k]]])

\* the methods of a sparse matrix A: A.matvec(x), A.rmatvec(x), A.dot(V)
sp_matvec(A, x) == dot(A, x)

sp_rmatvec(A, x) == dot(transpose(conj(A)), x)

sp_dot(A, V) == dot(A, V)

\* a closure that multiplies by the transpose
dense_matvec_transposed(A, v) == dot(transpose(A), v)

\* the closures aslinearoperator defines over a dense array A
dense_matvec(A, v) == dot(A, v)

dense_rmatvec(A, v) == dot(transpose(conj(A)), v)

dense_matmat(A, V) == dot(A, V)

\* a stand-in that returns zeros instead of raising
rmatvec_stub_zero(v) == Ok([v EXCEPT !.data = [k \in 1..Len(v.data) |-> 0]])

\* the stand-in __init__ installs when rmatvec is None
rmatvec_stub(v) == Raise(UnsupportedOperation)

RECURSIVE Call(_, _)

\* the matmat __init__ installs when matmat is None:
\*     V = asarray(V)
\*     return hstack( [ matvec(col.reshape(-1,1)) for col in V.T ] )
\* The first matvec call that raises ends the comprehension.
matmat_synth(matvec, V) ==
    LET W == asarray(V)
    IN IF Rank(W) = 0 THEN Raise("TypeError: iteration over a 0-d array")
       ELSE LET cols == rows(transpose(W))
                res == [j \in 1..Len(cols) |-> Call(matvec, reshape_col(cols[j]))]
                bad == {j \in 1..Len(cols) : res[j].exc # NoExc}
            IN IF bad # {}
               THEN Raise(res[CHOOSE j \in bad : \A k \in bad : j <= k].exc)
               ELSE hstack([j \in 1..Len(cols) |-> res[j].val])

\* a call f(x) of a callable
Call(f, x) ==
    CASE f.fn = "user" -> UserFn(f.name, x)
      [] f.fn = "dense_matvec" -> dense_matvec(f.A, x)
      [] f.fn = "dense_rmatvec" -> dense_rmatvec(f.A, x)
      [] f.fn = "dense_matmat" -> dense_matmat(f.A, x)
      [] f.fn = "sp_matvec" -> sp_matvec(f.A, x)
      [] f.fn = "sp_rmatvec" -> sp_rmatvec(f.A, x)
      [] f.fn = "sp_dot" -> sp_dot(f.A, x)
      [] f.fn = "rmatvec_stub" -> rmatvec_stub(x)
      [] f.fn = "matmat_synth" -> matmat_synth(f.matvec, x)
      [] OTHER -> Raise("TypeError: object is not callable")

(* ------------------------- shapes and dtypes --------------------------- *)

\* a Python int
PyInt(n) == [k |-> "int", n |-> n]

\* a Python tuple of ints
PyTuple(s) == [t |-> "tuple", v |-> [i \in 1..Len(s) |-> PyInt(s[i])]]

\* tuple(shape): a list or a tuple gives the tuple of its items, a value
\* that is no sequence raises
tuple(shape) ==
    IF shape.t \in {"tuple", "list"}
    THEN [exc |-> NoExc, tup |-> [shape EXCEPT !.t = "tuple"]]
    ELSE [exc |-> NotIterable]

\* scipy.sparse.sputils.isshape: a two-element tuple of non-negative integers
isshape(x) ==
    /\ Len(x.v) = 2
    /\ \A i \in 1..2 : x.v[i].k = "int" /\ x.v[i].n >= 0

\* a dtype argument: None, a string naming a type, or a dtype object
DtypeStr(s) == [t |-> "str", v |-> s]

DtypeObj(s) == [t |-> "dtype", v |-> s]

\* numpy.dtype(x): the canonical dtype object of x, or TypeError
numpy_dtype(x) ==
    CASE x.t = "dtype" -> [exc |-> NoExc, dt |-> x.v]
      [] x.t = "str" /\ x.v \in {"i4", "int32"} -> [exc |-> NoExc, dt |-> "int32"]
      [] x.t = "str" /\ x.v \in {"f8", "float64"} -> [exc |-> NoExc, dt |-> "float64"]
      [] OTHER -> [exc |-> DtypeNotUnderstood]

(* --------------------------- LinearOperator ---------------------------- *)

\* an instance on which no attribute is set
EmptyObj == <<>>

Args(shape, matvec, rmatvec, matmat, dtype) ==
    [shape |-> shape, matvec |-> matvec, rmatvec |-> rmatvec, matmat |-> matmat,
     dtype |-> dtype]

\* LinearOperator.__init__: the exception it raises (NoExc when it returns)
\* and the instance as it stands when __init__ ends.  The shape attribute
\* holds the two dimensions of the validated tuple.
LinearOperator(shape, matvec, rmatvec, matmat, dtype) ==
    LET t == tuple(shape)
    IN IF t.exc # NoExc THEN [exc |-> t.exc, self |-> EmptyObj]
       ELSE IF ~isshape(t.tup) THEN [exc |-> InvalidShape, self |-> EmptyObj]
       ELSE LET sh == <<t.tup.v[1].n, t.tup.v[2].n>>
                rmv == IF rmatvec = None THEN [fn |-> "rmatvec_stub"] ELSE rmatvec
                mm == IF matmat = None THEN [fn |-> "matmat_synth", matvec |-> matvec]
                      ELSE matmat
                s == [shape |-> sh, matvec |-> matvec, rmatvec |-> rmv, matmat |-> mm]
            IN IF dtype # None
               THEN LET d == numpy_dtype(dtype)
                    IN IF d.exc # NoExc THEN [exc |-> d.exc, self |-> s]
                       ELSE [exc |-> NoExc,
                             self |-> [shape |-> sh, matvec |-> matvec, rmatvec |-> rmv,
                                       matmat |-> mm, dtype |-> d.dt]]
               ELSE [exc |-> NoExc, self |-> s]

\* a __repr__ that formats the dtype attribute without asking for it
repr_always_dtype(self) ==
    "<" \o ToString(self.shape[1]) \o "x" \o ToString(self.shape[2])
        \o " LinearOperator with dtype="
        \o (IF "dtype" \in DOMAIN self THEN self.dtype ELSE "None") \o ">"

\* LinearOperator.__repr__
repr(self) ==
    LET M == self.shape[1]
        N == self.shape[2]
        dt == IF "dtype" \in DOMAIN self THEN "dtype=" \o self.dtype
              ELSE "unspecified dtype"
    IN "<" \o ToString(M) \o "x" \o ToString(N) \o " LinearOperator with " \o dt \o ">"

(* -------------------------- aslinearoperator --------------------------- *)

\* A Python value handed to aslinearoperator is [cls, attr] (its class and
\* the record of its attributes) with ref, the instance it is, for a
\* LinearOperator, and arr, its elements, for an array or a sparse matrix.

hasattr(A, name) == name \in DOMAIN A.attr

isspmatrix(A) == A.cls = "spmatrix"

\* the branch for an object with shape and matvec that leaves dtype out
object_args_without_dtype(A) ==
    Args(A.attr.shape, A.attr.matvec,
         IF hasattr(A, "rmatvec") THEN A.attr.rmatvec ELSE None,
         None, None)

\* the arguments of the LinearOperator(...) call made for an object with
\* shape and matvec: rmatvec and dtype are taken over when A has them
object_args(A) ==
    Args(A.attr.shape, A.attr.matvec,
         IF hasattr(A, "rmatvec") THEN A.attr.rmatvec ELSE None,
         None,
         IF hasattr(A, "dtype") THEN A.attr.dtype ELSE None)

\* aslinearoperator that tries the shape-and-matvec case before the sparse
\* one
aslinearoperator_object_first(A) ==
    IF A.cls = "LinearOperator"
    THEN [exc |-> NoExc, ref |-> A.ref]
    ELSE IF A.cls \in {"ndarray", "matrix"}
    THEN IF Len(A.arr.shape) > 2
         THEN [exc |-> InvalidRank]
         ELSE LET A2 == atleast_2d(asarray(A.arr))
              IN [exc |-> NoExc, ref |-> 0,
                  args |-> Args(PyTuple(A2.shape), [fn |-> "dense_matvec", A |-> A2],
                                [fn |-> "dense_rmatvec", A |-> A2],
                                [fn |-> "dense_matmat", A |-> A2], DtypeObj(A2.dtype))]
    ELSE IF hasattr(A, "shape") /\ hasattr(A, "matvec")
    THEN [exc |-> NoExc, ref |-> 0, args |-> object_args(A)]
    ELSE IF isspmatrix(A)
    THEN [exc |-> NoExc, ref |-> 0,
          args |-> Args(A.attr.shape, A.attr.matvec, A.attr.rmatvec, A.attr.dot,
                        A.attr.dtype)]
    ELSE [exc |-> UnsupportedType]

\* aslinearoperator without the isinstance(A, LinearOperator) case: an
\* instance is wrapped again through its shape and matvec attributes
aslinearoperator_rewrap(A) ==
    IF hasattr(A, "shape") /\ hasattr(A, "matvec")
    THEN [exc |-> NoExc, ref |-> 0,
          args |-> Args(A.attr.shape, A.attr.matvec, None, None, None)]
    ELSE [exc |-> UnsupportedType]

\* aslinearoperator up to its return statement: the exception it raises
\* itself, else the instance it returns as it is (ref), else the arguments
\* of the LinearOperator(...) call it returns the result of (ref = 0)
aslinearoperator(A) ==
    IF A.cls = "LinearOperator"
    THEN [exc |-> NoExc, ref |-> A.ref]
    ELSE IF A.cls \in {"ndarray", "matrix"}
    THEN IF Len(A.arr.shape) > 2
         THEN [exc |-> InvalidRank]
         ELSE LET A2 == atleast_2d(asarray(A.arr))
              IN [exc |-> NoExc, ref |-> 0,
                  args |-> Args(PyTuple(A2.shape), [fn |-> "dense_matvec", A |-> A2],
                                [fn |-> "dense_rmatvec", A |-> A2],
                                [fn |-> "dense_matmat", A |-> A2], DtypeObj(A2.dtype))]
    ELSE IF isspmatrix(A)
    THEN [exc |-> NoExc, ref |-> 0,
          args |-> Args(A.attr.shape, A.attr.matvec, A.attr.rmatvec, A.attr.dot,
                        A.attr.dtype)]
    ELSE IF hasattr(A, "shape") /\ hasattr(A, "matvec")
    THEN [exc |-> NoExc, ref |-> 0, args |-> object_args(A)]
    ELSE [exc |-> UnsupportedType]

(* ------------------------------ inputs --------------------------------- *)

\* shape arguments: a valid one (the list [2, 2]), a value that is no
\* sequence, sequences of the wrong length, a negative and a non-integral
\* dimension
ShapeArgs ==
    { [t |-> "list", v |-> <<PyInt(2), PyInt(2)>>],
      [t |-> "int", v |-> <<>>],
      PyTuple(<<>>), PyTuple(<<2>>), PyTuple(<<1, 2, 3>>), PyTuple(<<0 - 1, 2>>),
      [t |-> "tuple", v |-> <<PyInt(2), [k |-> "str", n |-> 0]>>] }

DtypeArgs == {None, DtypeStr("i4"), DtypeStr("bogus")}

CtorArgs ==
    { Args(s, mv, rmv, mm, dt) :
        s \in ShapeArgs, mv \in {User("mv"), User("dbl")}, rmv \in {None, User("dbl")},
        mm \in {None, User("mv")}, dt \in DtypeArgs }

\* the value that is the i-th LinearOperator instance
OpValue(h, i) ==
    [cls |-> "LinearOperator", ref |-> i,
     attr |-> [h[i] EXCEPT !.shape = PyTuple(@)]]

\* an ndarray or a matrix, and one of a subclass that adds a matvec method
ArrayValue(a) ==
    [cls |-> a.cls, arr |-> a,
     attr |-> [shape |-> PyTuple(a.shape), dtype |-> DtypeObj(a.dtype)]]

ArrayValueWithMatvec(a) ==
    [cls |-> a.cls, arr |-> a,
     attr |-> [shape |-> PyTuple(a.shape), dtype |-> DtypeObj(a.dtype),
               matvec |-> User("dbl")]]

\* a sparse matrix holding the elements of a
SparseValue(a) ==
    [cls |-> "spmatrix", arr |-> a,
     attr |-> [shape |-> PyTuple(a.shape), dtype |-> DtypeObj(a.dtype),
               matvec |-> [fn |-> "sp_matvec", A |-> a],
               rmatvec |-> [fn |-> "sp_rmatvec", A |-> a],
               dot |-> [fn |-> "sp_dot", A |-> a]]]

DenseValues ==
    { ArrayValue(Arr(<<2, 2>>, <<2, 0, 0, 3>>)),
      ArrayValue([Arr(<<3, 2>>, <<1, 2, 3, 4, 5, 6>>) EXCEPT !.cls = "matrix"]),
      ArrayValue([Arr(<<2>>, <<1, 2>>) EXCEPT !.dtype = "float64"]),
      ArrayValue(Arr(<<>>, <<5>>)),
      ArrayValue(Arr(<<0, 2>>, <<>>)),
      ArrayValueWithMatvec(Arr(<<2, 2>>, <<1, 2, 3, 4>>)),
      ArrayValue(Arr(<<1, 1, 2>>, <<1, 2>>)),
      ArrayValueWithMatvec(Arr(<<1, 1, 2>>, <<1, 2>>)) }

SparseValues == { SparseValue(Arr(<<2, 2>>, <<1, 1, 0, 1>>)) }

\* objects of other classes: any subset of the attributes shape, matvec,
\* rmatvec and dtype; a string has none of them
ObjectValues ==
    { [cls |-> "object",
       attr |-> [n \in names |->
                   CASE n = "shape" -> s
                     [] n = "matvec" -> User("mv")
                     [] n = "rmatvec" -> User("dbl")
                     [] OTHER -> dt]] :
        names \in SUBSET {"shape", "matvec", "rmatvec", "dtype"},
        s \in {PyTuple(<<2, 2>>), [t |-> "int", v |-> <<>>]},
        dt \in DtypeArgs }
    \cup { [cls |-> "str", attr |-> <<>>] }

Values(h) ==
    { OpValue(h, i) : i \in DOMAIN h } \cup DenseValues \cup SparseValues \cup ObjectValues

Lengths == {0, 1, 2}

\* vectors x: rank-1 arrays
Vectors == UNION { { Arr(<<n>>, d) : d \in [1..n -> 0..MaxVal] } : n \in Lengths }

\* matrices V: rank-2 arrays of 0/1 with up to MaxCols columns
Matrices ==
    UNION { { Arr(<<n, k>>, d) : d \in [1..(n * k) -> {0, 1}] } :
              n \in Lengths, k \in 0..MaxCols }

(* ------------------------------ actions -------------------------------- *)

\* no call is under way: the caller is between two calls
Idle == [op |-> "idle"]

Init ==
    /\ heap = <<>>
    /\ ctor = <<>>
    /\ last = Idle

\* the effect of the call LinearOperator(a.shape, ..., a.dtype) that the
\* event e makes: a new instance on success, nothing on an exception
New(e, a) ==
    LET r == LinearOperator(a.shape, a.matvec, a.rmatvec, a.matmat, a.dtype)
    IN IF r.exc = NoExc
       THEN /\ heap' = Append(heap, r.self)
            /\ ctor' = Append(ctor, e)
            /\ last' = [op |-> e.op, A |-> e.A, args |-> a, exc |-> NoExc,
                        ref |-> Len(heap) + 1, obj |-> r.self]
       ELSE /\ UNCHANGED <<heap, ctor>>
            /\ last' = [op |-> e.op, A |-> e.A, args |-> a, exc |-> r.exc,
                        ref |-> 0, obj |-> r.self]

\* LinearOperator(shape, matvec, rmatvec, matmat, dtype)
Construct ==
    /\ last = Idle
    /\ Len(heap) < MaxOps
    /\ \E a \in CtorArgs : New([op |-> "LinearOperator", A |-> None, args |-> a], a)

\* aslinearoperator(A)
Normalize ==
    /\ last = Idle
    /\ \E A \in Values(heap) :
       LET n == aslinearoperator(A)
       IN /\ A.cls = "LinearOperator" \/ Len(heap) < MaxOps
          /\ IF n.exc # NoExc
             THEN /\ UNCHANGED <<heap, ctor>>
                  /\ last' = [op |-> "aslinearoperator", A |-> A, exc |-> n.exc, ref |-> 0]
             ELSE IF n.ref # 0
             THEN /\ UNCHANGED <<heap, ctor>>
                  /\ last' = [op |-> "aslinearoperator", A |-> A, exc |-> NoExc,
                              ref |-> n.ref]
             ELSE New([op |-> "aslinearoperator", A |-> A, args |-> n.args], n.args)

\* the outcome of the call op on instance i with argument x
Called(op, i, x, r) ==
    IF r.exc = NoExc
    THEN [op |-> op, self |-> i, x |-> x, exc |-> NoExc, val |-> r.val]
    ELSE [op |-> op, self |-> i, x |-> x, exc |-> r.exc]

\* A.matvec(x)
Matvec ==
    /\ last = Idle
    /\ \E i \in DOMAIN heap, x \in Vectors :
          last' = Called("matvec", i, x, Call(heap[i].matvec, x))
    /\ UNCHANGED <<heap, ctor>>

\* A.rmatvec(x)
Rmatvec ==
    /\ last = Idle
    /\ \E i \in DOMAIN heap, x \in Vectors :
          last' = Called("rmatvec", i, x, Call(heap[i].rmatvec, x))
    /\ UNCHANGED <<heap, ctor>>

\* a matmat call that decides again, and stores, which matmat to use
Matmat_redeciding ==
    /\ last = Idle
    /\ \E i \in DOMAIN heap, V \in Matrices :
          LET mm == [fn |-> "matmat_synth", matvec |-> heap[i].matvec]
          IN /\ last' = Called("matmat", i, V, Call(mm, V))
             /\ heap' = [heap EXCEPT ![i].matmat = mm]
    /\ UNCHANGED ctor

\* A.matmat(V)
Matmat ==
    /\ last = Idle
    /\ \E i \in DOMAIN heap, V \in Matrices :
          last' = Called("matmat", i, V, Call(heap[i].matmat, V))
    /\ UNCHANGED <<heap, ctor>>

\* repr(A)
Repr ==
    /\ last = Idle
    /\ \E i \in DOMAIN heap : last' = [op |-> "repr", self |-> i, str |-> repr(heap[i])]
    /\ UNCHANGED <<heap, ctor>>

\* the caller takes the outcome of its call and goes on
Return ==
    /\ last # Idle
    /\ last' = Idle
    /\ UNCHANGED <<heap, ctor>>

Next == Construct \/ Normalize \/ Matvec \/ Rmatvec \/ Matmat \/ Repr \/ Return

Spec == Init /\ [][Next]_vars

(* ------------------------------- claims -------------------------------- *)

\* the instance the last call was made on, and the arguments of the
\* LinearOperator(...) call that constructed it
Self == heap[last.self]

SelfArgs == ctor[last.self].args

\* column j of the matrix V as a vector
ColVec(V, j) ==
    Arr(<<V.shape[1]>>, [i \in 1..V.shape[1] |-> V.data[(i - 1) * V.shape[2] + j]])

\* a matmat call on an instance constructed without matmat, with a matrix V
\* of N rows
SynthMatmatCall ==
    /\ last.op = "matmat"
    /\ SelfArgs.matmat = None
    /\ last.x.shape[1] = Self.shape[2]

\* val is the M x K matrix whose j-th column is matvec of V's j-th column
ColumnwiseResult ==
    LET V == last.x
        M == Self.shape[1]
        K == V.shape[2]
    IN /\ last.exc = NoExc
       /\ last.val.shape = <<M, K>>
       /\ \A j \in 1..K : \A i \in 1..M :
             last.val.data[(i - 1) * K + j] = Call(Self.matvec, ColVec(V, j)).val.data[i]

\* C1: on an operator constructed without matmat, matmat(V) of every matrix
\* V with N rows and K columns (K = 0 and K = 1 included) returns the M x K
\* matrix whose j-th column is matvec of the j-th column of V
C1_SynthesizedMatmatIsColumnwise == SynthMatmatCall => ColumnwiseResult

\* C2: an operator constructed without rmatvec is constructed without a
\* failure for the missing rmatvec, and every rmatvec call on it raises
\* NotImplementedError and returns nothing
C2_MissingRmatvecRaisesOnUse ==
    /\ ("args" \in DOMAIN last /\ last.args.rmatvec = None)
          => /\ last.exc # UnsupportedOperation
             /\ (last.exc = NoExc) =
                   (LinearOperator(last.args.shape, last.args.matvec, User("dbl"),
                                   last.args.matmat, last.args.dtype).exc = NoExc)
    /\ (last.op = "rmatvec" /\ SelfArgs.rmatvec = None)
          => (last.exc = UnsupportedOperation /\ "val" \notin DOMAIN last)

C2_Witness ==
    /\ last.op = "rmatvec"
    /\ SelfArgs.rmatvec = None
    /\ last.exc = UnsupportedOperation

\* C3: aslinearoperator of a LinearOperator returns that very instance and
\* creates none, so normalizing the result of a normalization returns it
C3_NormalizeOperatorIsIdentity ==
    [][(last'.op = "aslinearoperator" /\ last'.A.cls = "LinearOperator")
          => /\ last'.exc = NoExc
             /\ last'.ref = last'.A.ref
             /\ heap' = heap]_vars

C3_Witness ==
    /\ last.op = "aslinearoperator"
    /\ last.A.cls = "LinearOperator"
    /\ last.ref = last.A.ref
    /\ ctor[last.ref].op = "aslinearoperator"

\* a matvec call on an instance aslinearoperator made from a dense array
DenseMatvecCall ==
    /\ last.op = "matvec"
    /\ ctor[last.self].op = "aslinearoperator"
    /\ ctor[last.self].A.cls \in {"ndarray", "matrix"}

\* the array the instance of the last call was made from
Orig == ctor[last.self].A.arr

\* rows and columns of the array a read as a matrix, and its element (i, j)
NRows(a) == IF Rank(a) = 2 THEN a.shape[1] ELSE 1

NCols(a) == CASE Rank(a) = 2 -> a.shape[2] [] Rank(a) = 1 -> a.shape[1] [] OTHER -> 1

Elem(a, i, j) == a.data[(i - 1) * NCols(a) + j]

\* C4 as stated: for every dense array A of rank <= 2 and every vector x
\* that A can be multiplied by, matvec(x) of the operator made from A is
\* the result of multiplying A by x directly
C4_DenseMatvecIsDirectProduct ==
    (DenseMatvecCall /\ Orig.cls = "ndarray" /\ dot(Orig, last.x).exc = NoExc)
       => /\ last.exc = NoExc
          /\ last.val.shape = dot(Orig, last.x).val.shape
          /\ last.val.data = dot(Orig, last.x).val.data

\* C4 amended: for every dense array A of rank <= 2 and every vector x as
\* long as the 2-D coercion of A has columns, matvec(x) is the vector of
\* as many elements as the coercion has rows, the i-th being the sum over
\* j of A[i, j] * x[j]
C4_DenseMatvecIsProductOfCoercion ==
    (DenseMatvecCall /\ last.x.shape[1] = NCols(Orig))
       => /\ last.exc = NoExc
          /\ last.val.shape = <<NRows(Orig)>>
          /\ \A i \in 1..NRows(Orig) :
                last.val.data[i] =
                   SumTo([j \in 1..NCols(Orig) |-> Elem(Orig, i, j) * last.x.data[j]],
                         NCols(Orig))

C4_Witness ==
    /\ DenseMatvecCall
    /\ Orig.data = <<2, 0, 0, 3>>
    /\ last.x.data = <<1, 1>>
    /\ last.exc = NoExc
    /\ last.val.data = <<2, 3>>

\* the cases of aslinearoperator, as stated of its argument
IsOperator(A) == A.cls = "LinearOperator"

IsDense(A) == A.cls \in {"ndarray", "matrix"}

IsSparse(A) == A.cls = "spmatrix"

IsObject(A) == {"shape", "matvec"} \subseteq DOMAIN A.attr

NormalizeCall == last.op = "aslinearoperator"

\* C5: aslinearoperator handles its argument by the first case it matches
\* of (1) LinearOperator, (2) dense, (3) sparse, (4) object with shape and
\* matvec, and raises TypeError('type not understood') exactly when the
\* argument matches none of them
C5_FirstMatchingCaseWins ==
    NormalizeCall =>
       LET A == last.A
           called == "args" \in DOMAIN last
       IN /\ (last.exc = UnsupportedType)
                = (~IsOperator(A) /\ ~IsDense(A) /\ ~IsSparse(A) /\ ~IsObject(A))
          /\ IsOperator(A) => (~called /\ last.exc = NoExc /\ last.ref = A.ref)
          /\ (~IsOperator(A) /\ IsDense(A)) =>
                IF called
                THEN /\ last.args.matvec.fn = "dense_matvec"
                     /\ last.args.rmatvec.fn = "dense_rmatvec"
                     /\ last.args.matmat.fn = "dense_matmat"
                ELSE last.exc = InvalidRank
          /\ (~IsOperator(A) /\ ~IsDense(A) /\ IsSparse(A)) =>
                /\ called
                /\ last.args.matvec = A.attr.matvec
                /\ last.args.rmatvec = A.attr.rmatvec
                /\ last.args.matmat = A.attr.dot
                /\ last.exc = NoExc => heap[last.ref].matmat = A.attr.dot
          /\ (~IsOperator(A) /\ ~IsDense(A) /\ ~IsSparse(A) /\ IsObject(A)) =>
                /\ called
                /\ last.args.matvec = A.attr.matvec
                /\ last.args.matmat = None
                /\ last.exc = NoExc => heap[last.ref].matmat.fn = "matmat_synth"

C5_Witness ==
    /\ NormalizeCall
    /\ IsSparse(last.A)
    /\ IsObject(last.A)
    /\ last.exc = NoExc
    /\ heap[last.ref].matmat.fn = "sp_dot"

\* a shape argument that is a sequence of exactly two non-negative integers
ValidShapeArg(s) ==
    /\ s.t \in {"tuple", "list"}
    /\ Len(s.v) = 2
    /\ \A i \in 1..2 : s.v[i].k = "int" /\ s.v[i].n >= 0

\* C6: LinearOperator(shape, ...) raises ValueError('invalid shape') for
\* every shape that is not a sequence of exactly two non-negative integers
\* (a value that is no sequence included), before any attribute is set,
\* and does not raise it for a valid shape
C6_InvalidShapeRaisesBeforeAnyFieldIsSet ==
    last.op = "LinearOperator" =>
       IF ValidShapeArg(last.args.shape)
       THEN last.exc # InvalidShape
       ELSE last.exc = InvalidShape /\ DOMAIN last.obj = {}

\* C7: aslinearoperator of a dense array raises ValueError('array must have
\* rank <= 2') exactly when its rank is above 2, without calling
\* LinearOperator; an array of rank 0, 1 or 2 gives an operator of shape
\* 1x1, 1xN and MxN
C7_DenseRankCheckAndCoercion ==
    (NormalizeCall /\ IsDense(last.A)) =>
       LET a == last.A.arr
       IN /\ (last.exc = InvalidRank) = (Rank(a) > 2)
          /\ Rank(a) > 2 => "args" \notin DOMAIN last
          /\ Rank(a) <= 2 =>
                /\ last.exc = NoExc
                /\ heap[last.ref].shape =
                      CASE Rank(a) = 0 -> <<1, 1>>
                        [] Rank(a) = 1 -> <<1, a.shape[1]>>
                        [] OTHER -> a.shape

C7_Witness ==
    /\ NormalizeCall
    /\ IsDense(last.A)
    /\ last.A.arr.shape = <<2>>
    /\ last.exc = NoExc
    /\ heap[last.ref].shape = <<1, 2>>

\* the name str() gives for the dtype made of a dtype argument
DtypeName(d) == IF d.t = "dtype" THEN d.v ELSE IF d.v = "i4" THEN "int32" ELSE d.v

\* C8: repr of an operator, however constructed, is
\* "<MxN LinearOperator with unspecified dtype>" exactly when no dtype was
\* given to its constructor, and then it has no dtype attribute, and
\* "<MxN LinearOperator with dtype=X>" exactly when the dtype X was given
C8_ReprReportsDtype ==
    last.op = "repr" =>
       LET M == ToString(SelfArgs.shape.v[1].n)
           N == ToString(SelfArgs.shape.v[2].n)
       IN IF SelfArgs.dtype = None
          THEN /\ last.str = "<" \o M \o "x" \o N \o " LinearOperator with unspecified dtype>"
               /\ "dtype" \notin DOMAIN Self
          ELSE last.str = "<" \o M \o "x" \o N \o " LinearOperator with dtype="
                             \o DtypeName(SelfArgs.dtype) \o ">"

C8_Witness ==
    /\ last.op = "repr"
    /\ SelfArgs.dtype = None
    /\ last.str = "<2x2 LinearOperator with unspecified dtype>"

\* aslinearoperator of an object that is no LinearOperator, dense array or
\* sparse matrix and has shape, a valid one, and matvec
ObjectCall ==
    /\ NormalizeCall
    /\ last.A.cls = "object"
    /\ IsObject(last.A)
    /\ ValidShapeArg(last.A.attr.shape)

\* a dtype argument numpy.dtype makes a dtype of
NamesAType(d) == d.t = "dtype" \/ d.v \in {"i4", "int32", "f8", "float64"}

\* C9 as stated: the operator made from such an object has a dtype exactly
\* when the object has a dtype attribute, whatever its value
C9_DtypeByPresenceAlone ==
    ObjectCall =>
       /\ last.exc = NoExc
       /\ ("dtype" \in DOMAIN heap[last.ref]) = ("dtype" \in DOMAIN last.A.attr)

\* C9 amended: the operator made from such an object has a dtype exactly
\* when the object has a dtype attribute that is not None, and it is
\* numpy.dtype of the attribute; an attribute that names no type makes
\* aslinearoperator raise TypeError and no operator is made
C9_DtypeByPresenceAndValue ==
    ObjectCall =>
       LET has == "dtype" \in DOMAIN last.A.attr /\ last.A.attr.dtype # None
       IN /\ (last.exc # NoExc) = (has /\ ~NamesAType(last.A.attr.dtype))
          /\ last.exc # NoExc => (last.exc = DtypeNotUnderstood /\ last.ref = 0)
          /\ last.exc = NoExc =>
                /\ ("dtype" \in DOMAIN heap[last.ref]) = has
                /\ has => heap[last.ref].dtype = DtypeName(last.A.attr.dtype)

C9_Witness ==
    /\ ObjectCall
    /\ "dtype" \in DOMAIN last.A.attr
    /\ last.A.attr.dtype = None
    /\ last.exc = NoExc
    /\ "dtype" \notin DOMAIN heap[last.ref]

\* C10: no call (matvec, matmat, rmatvec, repr, aslinearoperator, failing
\* or not) changes an existing operator, and whether its matmat is the
\* synthesized one is what its construction decided
C10_OperatorsAreNeverMutated ==
    [][/\ \A i \in DOMAIN heap :
             i \in DOMAIN heap' /\ heap'[i] = heap[i] /\ ctor'[i] = ctor[i]
       /\ \A i \in DOMAIN heap' :
             (heap'[i].matmat.fn = "matmat_synth") = (ctor'[i].args.matmat = None)]_vars

C10_Witness ==
    /\ last.op = "matmat"
    /\ last.exc # NoExc
    /\ SelfArgs.matmat # None
    /\ Self.matmat = SelfArgs.matmat

====
